---- MODULE Spec2Model ----
(***************************************************************************)
(* Model of src/po.py: the inventory forecast of PO-Detail.                *)
(*                                                                         *)
(* process_inventory reads a shipment table and a reference table,         *)
(* normalises their quantity cells, reconciles the identifiers (OPC),      *)
(* aggregates the shipments per (OPC, day label), simulates eight days of  *)
(* stock per reference row and writes two sheets.                          *)
(*                                                                         *)
(* Representation                                                          *)
(*   text        a sequence of one-character strings, <<"1", ",", "2">>    *)
(*   float       [nan, v]: an integer-valued double, or NaN.  Quantities   *)
(*               of the modelled domain are whole numbers, which doubles   *)
(*               add and subtract exactly; NaN absorbs.                    *)
(*   identifier  [kind, chars, num]: a text cell or a numeric cell         *)
(*   cell        [kind, chars, num]: text, a number, or a blank cell       *)
(*               (pandas delivers a blank cell as the float NaN)           *)
(*   date        [d, m, y]; a day label is [kind, d, m]                    *)
(***************************************************************************)
EXTENDS Integers, Sequences, FiniteSets

(***************************************************************************)
(* Bounds of the model.                                                    *)
(***************************************************************************)
\* longest generated text cell of the normaliser's input set
MaxCellLen == 3
\* most rows of a loaded reference table
MaxRefRows == 2
\* most rows of a loaded shipment table
MaxShipRows == 2

(***************************************************************************)
(* Program constants.                                                      *)
(***************************************************************************)
\* range(1, 9): the horizon has eight days
HorizonLength == 8
\* days_to_negative <= 4: the watchlist cutoff
WatchCutoff == 4

(***************************************************************************)
(* Text and floats.                                                        *)
(***************************************************************************)
Digits == <<"0", "1", "2", "3", "4", "5", "6", "7", "8", "9">>

IsDigit(c) == \E i \in 1..10 : Digits[i] = c

DigitVal(c) == (CHOOSE i \in 1..10 : Digits[i] = c) - 1

F(n) == [nan |-> FALSE, v |-> n]

NaN == [nan |-> TRUE, v |-> 0]

\* a + b on doubles
FAdd(a, b) == IF a.nan \/ b.nan THEN NaN ELSE F(a.v + b.v)

\* a - b on doubles
FSub(a, b) == IF a.nan \/ b.nan THEN NaN ELSE F(a.v - b.v)

\* a < 0 on doubles: every comparison with NaN is false
FNeg(a) == ~a.nan /\ a.v < 0

RECURSIVE IntToChars(_)
\* str(n) of a non-negative int
IntToChars(n) ==
    IF n < 10 THEN <<Digits[n + 1]>>
    ELSE IntToChars(n \div 10) \o <<Digits[(n % 10) + 1]>>

RECURSIVE RemoveCommas(_)
\* s.replace(",", "")
RemoveCommas(s) ==
    IF s = <<>> THEN <<>>
    ELSE IF Head(s) = "," THEN RemoveCommas(Tail(s))
    ELSE <<Head(s)>> \o RemoveCommas(Tail(s))

RECURSIVE StripLeft(_)
StripLeft(s) ==
    IF s # <<>> /\ Head(s) = " " THEN StripLeft(Tail(s)) ELSE s

RECURSIVE StripRight(_)
StripRight(s) ==
    IF s # <<>> /\ s[Len(s)] = " " THEN StripRight(SubSeq(s, 1, Len(s) - 1)) ELSE s

\* s.strip()
Strip(s) == StripLeft(StripRight(s))

RECURSIVE DigitsValue(_)
DigitsValue(s) ==
    IF s = <<>> THEN 0
    ELSE 10 * DigitsValue(SubSeq(s, 1, Len(s) - 1)) + DigitVal(s[Len(s)])

AllDigits(s) == s # <<>> /\ \A i \in 1..Len(s) : IsDigit(s[i])

\* "nan" in any letter case
IsNanWord(s) ==
    /\ Len(s) = 3
    /\ s[1] \in {"n", "N"}
    /\ s[2] \in {"a", "A"}
    /\ s[3] \in {"n", "N"}

Unsigned(s) == IF s # <<>> /\ Head(s) \in {"-", "+"} THEN Tail(s) ELSE s

(***************************************************************************)
(* float(s) of Python on the texts of the modelled alphabet: an optional   *)
(* sign and decimal digits, or the word nan; anything else raises          *)
(* ValueError.  Fractions, exponents, underscores and inf are outside the  *)
(* alphabet.  [ok, val]: ok is FALSE where float raises.                   *)
(***************************************************************************)
PyFloat(s) ==
    LET t == Strip(s)
        u == Unsigned(t)
    IN  IF AllDigits(u)
        THEN [ok |-> TRUE,
              val |-> IF Head(t) = "-" THEN F(0 - DigitsValue(u)) ELSE F(DigitsValue(u))]
        ELSE IF IsNanWord(u) THEN [ok |-> TRUE, val |-> NaN]
        ELSE [ok |-> FALSE, val |-> F(0)]

(***************************************************************************)
(* Cells.                                                                  *)
(***************************************************************************)
TextCell(s) == [kind |-> "text", chars |-> s, num |-> 0]

NumCell(n) == [kind |-> "number", chars |-> <<>>, num |-> n]

\* what the loader delivers for an empty cell: float('nan')
BlankCell == [kind |-> "blank", chars |-> <<>>, num |-> 0]

\* str(value)
PyStr(value) ==
    CASE value.kind = "text" -> value.chars
      [] value.kind = "number" -> IntToChars(value.num)
      [] value.kind = "blank" -> <<"n", "a", "n">>

\* format_add: the try body, and 0.0 from the bare except
format_add(value) ==
    LET s == Strip(RemoveCommas(PyStr(value)))
    IN  IF s = <<>> THEN F(0)
        ELSE IF PyFloat(s).ok THEN PyFloat(s).val
        ELSE F(0)

\* format_on_hand: the same statements again
format_on_hand(value) ==
    LET s == Strip(RemoveCommas(PyStr(value)))
    IN  IF s = <<>> THEN F(0)
        ELSE IF PyFloat(s).ok THEN PyFloat(s).val
        ELSE F(0)

\* format_ship_qty: the same statements again
format_ship_qty(value) ==
    LET s == Strip(RemoveCommas(PyStr(value)))
    IN  IF s = <<>> THEN F(0)
        ELSE IF PyFloat(s).ok THEN PyFloat(s).val
        ELSE F(0)

(***************************************************************************)
(* Dates and day labels.                                                   *)
(***************************************************************************)
Date(d, m, y) == [d |-> d, m |-> m, y |-> y]

IsLeap(y) == (y % 4 = 0 /\ y % 100 # 0) \/ y % 400 = 0

DaysInMonth(m, y) ==
    IF m = 2 THEN (IF IsLeap(y) THEN 29 ELSE 28)
    ELSE IF m \in {4, 6, 9, 11} THEN 30
    ELSE 31

NextDay(t) ==
    IF t.d < DaysInMonth(t.m, t.y) THEN Date(t.d + 1, t.m, t.y)
    ELSE IF t.m < 12 THEN Date(1, t.m + 1, t.y)
    ELSE Date(1, 1, t.y + 1)

RECURSIVE AddDays(_, _)
\* t + timedelta(days=n)
AddDays(t, n) == IF n = 0 THEN t ELSE AddDays(NextDay(t), n - 1)

\* t.strftime("%d/%m"): the year is not part of the label
Label(t) == [kind |-> "label", d |-> t.d, m |-> t.m]

\* a missing value of an object column (None, NaN)
NullLabel == [kind |-> "null", d |-> 0, m |-> 0]

\* the string "NaT"
NaTText == [kind |-> "NaT", d |-> 0, m |-> 0]

\* a Due Date cell that parses, and one that does not
DateCell(t) == [kind |-> "date", d |-> t.d, m |-> t.m, y |-> t.y]

BadDateCell == [kind |-> "bad", d |-> 0, m |-> 0, y |-> 0]

(***************************************************************************)
(* pd.to_datetime(..., errors="coerce").dt.strftime("%d/%m") of one cell.  *)
(* An unparsable cell is coerced to NaT.  What strftime makes of NaT is    *)
(* the library's choice and differs between pandas releases: the string    *)
(* "NaT", or a missing value.  nat is TRUE for the former.                 *)
(***************************************************************************)
DueLabel(cell, nat) ==
    IF cell.kind = "date" THEN Label(cell)
    ELSE IF nat THEN NaTText
    ELSE NullLabel

\* date_columns
DateColumns(created) == [i \in 1..HorizonLength |-> Label(AddDays(created, i))]

(***************************************************************************)
(* Identifiers.                                                            *)
(***************************************************************************)
TextId(s) == [kind |-> "text", chars |-> s, num |-> 0]

NumId(n) == [kind |-> "number", chars |-> <<>>, num |-> n]

\* astype(str) of one identifier
AsTypeStr(opc) == IF opc.kind = "number" THEN TextId(IntToChars(opc.num)) ELSE opc

(***************************************************************************)
(* The steps of process_inventory as functions of the tables.              *)
(***************************************************************************)
\* df_input["Ship Qty"].apply(format_ship_qty)
FormatInput(rows) ==
    [i \in 1..Len(rows) |->
        [OPC |-> rows[i].OPC, Due |-> rows[i].Due, Qty |-> format_ship_qty(rows[i].Qty)]]

\* df_ref["On Hand"].apply(format_on_hand), df_ref["ADD"].apply(format_add)
FormatRef(rows) ==
    [i \in 1..Len(rows) |->
        [OPC |-> rows[i].OPC,
         OnHand |-> format_on_hand(rows[i].OnHand),
         ADD |-> format_add(rows[i].ADD)]]

\* the Due Date column replaced by its labels
LabelDueDates(rows, nat) ==
    [i \in 1..Len(rows) |->
        [OPC |-> rows[i].OPC, Due |-> DueLabel(rows[i].Due, nat), Qty |-> rows[i].Qty]]

KeepsDue(r) == r.Due # NaTText

\* df_input[df_input["Due Date"] != "NaT"]
DropNaT(rows) == SelectSeq(rows, KeepsDue)

\* set(df_ref["OPC"])
RefOpcs(ref) == {ref[i].OPC : i \in 1..Len(ref)}

\* the filter left out
FilterKnownKeepAll(rows, opcs) == rows

\* df_input[df_input["OPC"].isin(ref_opcs)]
FilterKnown(rows, opcs) ==
    LET Known(r) == r.OPC \in opcs
    IN  SelectSeq(rows, Known)

\* df_ref["OPC"].astype(str)
RefAsText(ref) ==
    [i \in 1..Len(ref) |->
        [OPC |-> AsTypeStr(ref[i].OPC), OnHand |-> ref[i].OnHand, ADD |-> ref[i].ADD]]

\* ref_opcs - set(df_input["OPC"])
MissingOpcs(opcs, rows) == opcs \ {rows[i].OPC : i \in 1..Len(rows)}

RECURSIVE MissingRows(_)
(***************************************************************************)
(* The placeholder rows, Due Date None and Ship Qty 0.  list(missing_opcs) *)
(* has no defined order; the rows are read by the groupby alone, which     *)
(* does not depend on it.                                                  *)
(***************************************************************************)
MissingRows(missing) ==
    IF missing = {} THEN <<>>
    ELSE LET o == CHOOSE x \in missing : TRUE
         IN  <<[OPC |-> o, Due |-> NullLabel, Qty |-> F(0)]>> \o MissingRows(missing \ {o})

\* pd.concat([df_input, missing_rows]) when missing_opcs is not empty
WithMissing(rows, opcs) == rows \o MissingRows(MissingOpcs(opcs, rows))

RECURSIVE SumQty(_)
\* Series.sum(): missing values are skipped
SumQty(rows) ==
    IF rows = <<>> THEN F(0)
    ELSE IF Head(rows).Qty.nan THEN SumQty(Tail(rows))
    ELSE FAdd(Head(rows).Qty, SumQty(Tail(rows)))

\* a groupby that keeps the groups of missing keys (dropna=False)
GroupKeptAll(opc, due) == TRUE

\* groupby drops the groups whose key has a missing value
GroupKept(opc, due) == due.kind # "null"

\* df_input.groupby(["OPC", "Due Date"])["Ship Qty"].sum().reset_index()
Aggregate(rows) ==
    LET keys == {<<rows[i].OPC, rows[i].Due>> : i \in 1..Len(rows)}
        Of(k) ==
            LET In(r) == r.OPC = k[1] /\ r.Due = k[2]
            IN  SelectSeq(rows, In)
    IN  {[OPC |-> k[1], Due |-> k[2], Qty |-> SumQty(Of(k))] :
            k \in {kk \in keys : GroupKept(kk[1], kk[2])}}

(***************************************************************************)
(* The simulation of one reference row.                                    *)
(***************************************************************************)
\* df_ship[df_ship["OPC"] == opc]
SubDf(ship, opc) == {e \in ship : e.OPC = opc}

\* day_str in ship_dict
InShipDict(sub, day) == \E e \in sub : e.Due = day

\* ship_dict[day_str]
ShipDictAt(sub, day) == (CHOOSE e \in sub : e.Due = day).Qty

\* one pass of the day loop: the shipment first, then the demand
DayStock(stock, sub, day, add) ==
    FSub(IF InShipDict(sub, day) THEN FAdd(stock, ShipDictAt(sub, day)) ELSE stock, add)

\* the test without "days_to_negative is None": the last crossing wins
NextDaysToNegativeLast(dtn, stock, d) == IF FNeg(stock) THEN d ELSE dtn

\* days_to_negative after one pass; 0 stands for None
NextDaysToNegative(dtn, stock, d) == IF dtn = 0 /\ FNeg(stock) THEN d ELSE dtn

RECURSIVE SumSet(_)
SumSet(sub) ==
    IF sub = {} THEN F(0)
    ELSE LET e == CHOOSE x \in sub : TRUE
         IN  IF e.Qty.nan THEN SumSet(sub \ {e}) ELSE FAdd(e.Qty, SumSet(sub \ {e}))

\* sub_df["Ship Qty"].sum() if len(sub_df) else 0.0
TotalShip(sub) == IF sub # {} THEN SumSet(sub) ELSE F(0)

\* the test without its cutoff
OnWatchlistNoCutoff(dtn) == dtn # 0

\* days_to_negative is not None and days_to_negative <= 4
OnWatchlist(dtn) == dtn # 0 /\ dtn <= WatchCutoff

\* a loop that reports only the items with shipments
AppendInventoryRowIfShipped(rows, row_data) ==
    IF row_data.total_ship = F(0) THEN rows ELSE Append(rows, row_data)

\* inventory_rows.append(row_data)
AppendInventoryRow(rows, row_data) == Append(rows, row_data)

\* row_data, without the Descr and SKU cells, which are copied through
RowData(item, sub, daily) ==
    [opc |-> item.OPC, oh |-> item.OnHand, add |-> item.ADD,
     total_ship |-> TotalShip(sub), daily |-> daily]

NegativeRow(item, dtn) ==
    [opc |-> item.OPC, oh |-> item.OnHand, add |-> item.ADD, days |-> dtn]

RECURSIVE DayLoop(_, _, _, _, _, _)
\* the whole day loop from day d on: [daily, dtn]
DayLoop(stock, dtn, daily, d, sim, cols) ==
    IF d > Len(cols) THEN [daily |-> daily, dtn |-> dtn]
    ELSE LET st == DayStock(stock, sim.sub, cols[d], sim.add)
         IN  DayLoop(st, NextDaysToNegative(dtn, st, d), Append(daily, st), d + 1, sim, cols)

RECURSIVE ItemLoop(_, _, _, _, _)
\* the loop over df_ref from row k on: [inv, neg]
ItemLoop(ref, ship, cols, k, out) ==
    IF k > Len(ref) THEN out
    ELSE LET item == ref[k]
             sub == SubDf(ship, item.OPC)
             run == DayLoop(item.OnHand, 0, <<>>, 1, [sub |-> sub, add |-> item.ADD], cols)
         IN  ItemLoop(ref, ship, cols, k + 1,
                 [inv |-> AppendInventoryRow(out.inv, RowData(item, sub, run.daily)),
                  neg |-> IF OnWatchlist(run.dtn)
                          THEN Append(out.neg, NegativeRow(item, run.dtn))
                          ELSE out.neg])

\* df_input as the groupby receives it
Reconciled(ref, input, nat) ==
    WithMissing(FilterKnown(DropNaT(LabelDueDates(FormatInput(input), nat)), RefOpcs(ref)),
                RefOpcs(ref))

\* the two sheets of a run on the tables ref and input, created on `created`
Forecast(ref, input, created, nat) ==
    ItemLoop(RefAsText(FormatRef(ref)), Aggregate(Reconciled(ref, input, nat)),
             DateColumns(created), 1, [inv |-> <<>>, neg |-> <<>>])

(***************************************************************************)
(* The files a run can meet.                                               *)
(***************************************************************************)
OpcA == TextId(<<"A">>)

OpcB == TextId(<<"B">>)

OpcZ == TextId(<<"Z">>)

Opc7 == NumId(7)

\* os.path.getctime of the input file
CreationDates == {Date(27, 12, 2025)}

DueD2 == DateCell(Date(29, 12, 2025))

DueNextYear == DateCell(Date(29, 12, 2026))

DueOutside == DateCell(Date(15, 6, 2026))

RefRow(opc, oh, add) == [OPC |-> opc, OnHand |-> oh, ADD |-> add]

ShipRow(opc, due, qty) == [OPC |-> opc, Due |-> due, Qty |-> qty]

RefRowChoices ==
    { RefRow(OpcA, TextCell(<<"0">>), TextCell(<<"1">>)),
      RefRow(OpcA, TextCell(<<"5">>), NumCell(1)),
      RefRow(Opc7, TextCell(<<"2">>), TextCell(<<"1">>)),
      RefRow(OpcB, TextCell(<<"1", ",", "0", "0", "0">>), TextCell(<<"N", "/", "A">>)),
      RefRow(OpcB, BlankCell, TextCell(<<"1">>)) }

ShipRowChoices ==
    { ShipRow(OpcA, DueD2, TextCell(<<"5">>)),
      ShipRow(OpcA, BadDateCell, TextCell(<<"5">>)),
      ShipRow(OpcA, DueNextYear, BlankCell),
      ShipRow(OpcA, DueOutside, NumCell(3)),
      ShipRow(OpcZ, DueD2, TextCell(<<"5">>)),
      ShipRow(Opc7, DueD2, TextCell(<<"5">>)) }

SeqsUpTo(S, n) == UNION {[1..k -> S] : k \in 0..n}

\* what try_read_excel_line_check can return for the reference file
RefTables == SeqsUpTo(RefRowChoices, MaxRefRows)

\* what try_read_excel_line_check can return for the input file
ShipTables == SeqsUpTo(ShipRowChoices, MaxShipRows)

\* the characters of the generated quantity cells
CellAlphabet == {"0", "1", ",", " ", "-", "N"}

\* the cells the normalisers are applied to
NormCells ==
    {TextCell(s) : s \in SeqsUpTo(CellAlphabet, MaxCellLen)}
    \cup {TextCell(<<"N", "/", "A">>), TextCell(<<"1", ",", "2", "3", "4">>),
          TextCell(<<"n", "a", "n">>), TextCell(<<" ", "1", "2", " ">>)}
    \cup {NumCell(0), NumCell(7), NumCell(1234), BlankCell}

(***************************************************************************)
(* State.                                                                  *)
(***************************************************************************)
VARIABLES
    input_file, reference_file, output_file,    \* the three StringVars
    nat_as_text,        \* the installed pandas formats NaT as the string "NaT"
    pc,                 \* where process_inventory stands; "idle" between runs
    log,                \* the latest run: "run", then its boundary calls in order
    raw_input, raw_ref, \* the tables as the loader returned them
    df_input, df_ref, ref_opcs, file_creation_date, date_columns, df_ship,
    row_idx,            \* position of the iterrows loop
    sub_df, current_stock, days_to_negative, daily_inv, d_idx,
    inventory_rows, negative_rows,
    value, fn, normalized   \* a cell, the normaliser applied to it, its result

selection == <<input_file, reference_file, output_file>>

tables ==
    <<raw_input, raw_ref, df_input, df_ref, ref_opcs, file_creation_date, date_columns,
      df_ship>>

item_locals == <<sub_df, current_stock, days_to_negative, daily_inv, d_idx>>

sheets == <<row_idx, inventory_rows, negative_rows>>

norm == <<value, fn, normalized>>

vars == <<selection, nat_as_text, pc, log, tables, item_locals, sheets, norm>>

\* no date yet
NoDate == Date(0, 0, 0)

\* the locals of process_inventory before it has assigned them
NoLocals ==
    /\ raw_input = <<>> /\ raw_ref = <<>>
    /\ df_input = <<>> /\ df_ref = <<>>
    /\ ref_opcs = {} /\ file_creation_date = NoDate
    /\ date_columns = <<>> /\ df_ship = {}
    /\ row_idx = 0
    /\ sub_df = {} /\ current_stock = F(0) /\ days_to_negative = 0
    /\ daily_inv = <<>> /\ d_idx = 0
    /\ inventory_rows = <<>> /\ negative_rows = <<>>

\* a return of process_inventory: its locals are gone
Return ==
    /\ pc' = "idle"
    /\ raw_input' = <<>> /\ raw_ref' = <<>>
    /\ df_input' = <<>> /\ df_ref' = <<>>
    /\ ref_opcs' = {} /\ file_creation_date' = NoDate
    /\ date_columns' = <<>> /\ df_ship' = {}
    /\ row_idx' = 0
    /\ sub_df' = {} /\ current_stock' = F(0) /\ days_to_negative' = 0
    /\ daily_inv' = <<>> /\ d_idx' = 0
    /\ inventory_rows' = <<>> /\ negative_rows' = <<>>

Init ==
    /\ input_file = "" /\ reference_file = "" /\ output_file = ""
    /\ nat_as_text \in BOOLEAN
    /\ pc = "idle"
    /\ log = <<>>
    /\ NoLocals
    /\ value = BlankCell /\ fn = "none" /\ normalized = F(0)

(***************************************************************************)
(* The file dialogs.                                                       *)
(***************************************************************************)
browse_input ==
    /\ pc = "idle"
    /\ \E f \in {"", "shipments.xlsx"} :
        input_file' = IF f # "" THEN f ELSE input_file
    /\ UNCHANGED <<reference_file, output_file, nat_as_text, pc, log, tables,
                   item_locals, sheets, norm>>

browse_ref ==
    /\ pc = "idle"
    /\ \E f \in {"", "reference.xlsx"} :
        reference_file' = IF f # "" THEN f ELSE reference_file
    /\ UNCHANGED <<input_file, output_file, nat_as_text, pc, log, tables,
                   item_locals, sheets, norm>>

browse_out ==
    /\ pc = "idle"
    /\ \E f \in {"", "forecast.xlsx"} :
        output_file' = IF f # "" THEN f ELSE output_file
    /\ UNCHANGED <<input_file, reference_file, nat_as_text, pc, log, tables,
                   item_locals, sheets, norm>>

(***************************************************************************)
(* process_inventory, statement group by statement group.  The window is   *)
(* single-threaded: nothing else runs until it returns.                    *)
(***************************************************************************)
\* the test without its third operand
SelectionMissingNoOutput == input_file = "" \/ reference_file = ""

\* not input_file.get() or not reference_file.get() or not output_file.get()
SelectionMissing == input_file = "" \/ reference_file = "" \/ output_file = ""

\* the except block without its return
AfterInputFailureContinues == "read_reference"

\* where a failed read of the input file leaves the run
AfterInputFailure == "idle"

\* lines 69-75: the button is pressed
CheckSelection ==
    /\ pc = "idle"
    /\ IF SelectionMissing
       THEN /\ log' = <<"run", "showerror:select">>
            /\ pc' = "idle"
       ELSE /\ log' = <<"run">>
            /\ pc' = "read_input"
    /\ UNCHANGED <<selection, nat_as_text, tables, item_locals, sheets, norm>>

\* lines 77-81
ReadInput ==
    /\ pc = "read_input"
    /\ \/ /\ log' = log \o <<"read:input", "showerror:input">>
          /\ pc' = AfterInputFailure
          /\ UNCHANGED raw_input
       \/ /\ \E t \in ShipTables : raw_input' = t
          /\ log' = Append(log, "read:input")
          /\ pc' = "read_reference"
    /\ UNCHANGED <<selection, nat_as_text, raw_ref, df_input, df_ref, ref_opcs,
                   file_creation_date, date_columns, df_ship, item_locals, sheets, norm>>

\* lines 83-87
ReadReference ==
    /\ pc = "read_reference"
    /\ \/ /\ log' = log \o <<"read:reference", "showerror:reference">>
          /\ Return
       \/ /\ \E t \in RefTables : raw_ref' = t
          /\ log' = Append(log, "read:reference")
          /\ pc' = "normalize"
          /\ UNCHANGED <<raw_input, df_input, df_ref, ref_opcs, file_creation_date,
                         date_columns, df_ship, item_locals, sheets>>
    /\ UNCHANGED <<selection, nat_as_text, norm>>

\* lines 89-98: the quantity columns, the day labels, the NaT filter
NormalizeColumns ==
    /\ pc = "normalize"
    /\ df_input' = DropNaT(LabelDueDates(FormatInput(raw_input), nat_as_text))
    /\ df_ref' = FormatRef(raw_ref)
    /\ pc' = "reconcile"
    /\ UNCHANGED <<selection, nat_as_text, log, raw_input, raw_ref, ref_opcs,
                   file_creation_date, date_columns, df_ship, item_locals, sheets, norm>>

\* lines 100-109
Reconcile ==
    /\ pc = "reconcile"
    /\ ref_opcs' = RefOpcs(df_ref)
    /\ df_input' = WithMissing(FilterKnown(df_input, RefOpcs(df_ref)), RefOpcs(df_ref))
    /\ df_ref' = RefAsText(df_ref)
    /\ pc' = "aggregate"
    /\ UNCHANGED <<selection, nat_as_text, log, raw_input, raw_ref, file_creation_date,
                   date_columns, df_ship, item_locals, sheets, norm>>

\* lines 111-117
AggregateShipments ==
    /\ pc = "aggregate"
    /\ \E created \in CreationDates :
        /\ file_creation_date' = created
        /\ date_columns' = DateColumns(created)
    /\ df_ship' = Aggregate(df_input)
    /\ inventory_rows' = <<>> /\ negative_rows' = <<>>
    /\ row_idx' = 1
    /\ pc' = "item"
    /\ UNCHANGED <<selection, nat_as_text, log, raw_input, raw_ref, df_input, df_ref,
                   ref_opcs, item_locals, norm>>

\* lines 119-131: the next row of df_ref, or the end of the loop
BeginItem ==
    /\ pc = "item"
    /\ IF row_idx <= Len(df_ref)
       THEN /\ sub_df' = SubDf(df_ship, df_ref[row_idx].OPC)
            /\ current_stock' = df_ref[row_idx].OnHand
            /\ days_to_negative' = 0
            /\ daily_inv' = <<>>
            /\ d_idx' = 1
            /\ pc' = "day"
       ELSE /\ pc' = "write"
            /\ UNCHANGED item_locals
    /\ UNCHANGED <<selection, nat_as_text, log, tables, sheets, norm>>

\* lines 133-140: one pass of the day loop
DayStep ==
    /\ pc = "day"
    /\ LET stock == DayStock(current_stock, sub_df, date_columns[d_idx],
                             df_ref[row_idx].ADD)
       IN  /\ current_stock' = stock
           /\ daily_inv' = Append(daily_inv, stock)
           /\ days_to_negative' = NextDaysToNegative(days_to_negative, stock, d_idx)
    /\ d_idx' = d_idx + 1
    /\ pc' = IF d_idx < Len(date_columns) THEN "day" ELSE "item_end"
    /\ UNCHANGED <<selection, nat_as_text, log, tables, sub_df, sheets, norm>>

\* lines 142-147
EndItem ==
    /\ pc = "item_end"
    /\ inventory_rows' =
            AppendInventoryRow(inventory_rows, RowData(df_ref[row_idx], sub_df, daily_inv))
    /\ negative_rows' =
            IF OnWatchlist(days_to_negative)
            THEN Append(negative_rows, NegativeRow(df_ref[row_idx], days_to_negative))
            ELSE negative_rows
    /\ row_idx' = row_idx + 1
    /\ pc' = "item"
    /\ UNCHANGED <<selection, nat_as_text, log, tables, item_locals, norm>>

\* lines 149-161: the writer succeeds or raises
WriteOutput ==
    /\ pc = "write"
    /\ \/ log' = log \o <<"write:output", "showinfo:saved">>
       \/ log' = log \o <<"write:output", "showerror:output">>
    /\ Return
    /\ UNCHANGED <<selection, nat_as_text, norm>>

Next ==
    \/ browse_input
    \/ browse_ref
    \/ browse_out
    \/ CheckSelection
    \/ ReadInput
    \/ ReadReference
    \/ NormalizeColumns
    \/ Reconcile
    \/ AggregateShipments
    \/ BeginItem
    \/ DayStep
    \/ EndItem
    \/ WriteOutput

Spec == Init /\ [][Next]_vars

(***************************************************************************)
(* The normalisers on their own: a cell is drawn, one of the three is      *)
(* applied to it.                                                          *)
(***************************************************************************)
InitNorm ==
    /\ input_file = "" /\ reference_file = "" /\ output_file = ""
    /\ nat_as_text = FALSE
    /\ pc = "idle"
    /\ log = <<>>
    /\ NoLocals
    /\ value \in NormCells /\ fn = "none" /\ normalized = F(0)

ApplyFormatAdd ==
    /\ fn = "none"
    /\ normalized' = format_add(value)
    /\ fn' = "format_add"
    /\ UNCHANGED <<selection, nat_as_text, pc, log, tables, item_locals, sheets, value>>

ApplyFormatOnHand ==
    /\ fn = "none"
    /\ normalized' = format_on_hand(value)
    /\ fn' = "format_on_hand"
    /\ UNCHANGED <<selection, nat_as_text, pc, log, tables, item_locals, sheets, value>>

ApplyFormatShipQty ==
    /\ fn = "none"
    /\ normalized' = format_ship_qty(value)
    /\ fn' = "format_ship_qty"
    /\ UNCHANGED <<selection, nat_as_text, pc, log, tables, item_locals, sheets, value>>

NextNorm == ApplyFormatAdd \/ ApplyFormatOnHand \/ ApplyFormatShipQty

SpecNorm == InitNorm /\ [][NextNorm]_vars

(***************************************************************************)
(* Vocabulary of the properties.                                           *)
(***************************************************************************)
\* the two sheets as the run holds them
Sheets == [inv |-> inventory_rows, neg |-> negative_rows]

\* the loops are over: what WriteOutput hands to the writer is final
Finished == pc = "write"

\* the least index of a negative entry of daily, 0 when there is none
FirstNegative(daily) ==
    IF \E i \in 1..Len(daily) : FNeg(daily[i])
    THEN CHOOSE i \in 1..Len(daily) :
            /\ FNeg(daily[i])
            /\ \A j \in 1..(i - 1) : ~FNeg(daily[j])
    ELSE 0

\* the table without its row i
WithoutRow(rows, i) == SubSeq(rows, 1, i - 1) \o SubSeq(rows, i + 1, Len(rows))

\* the table with the Ship Qty cell of row i set to 0
WithZeroQty(rows, i) == [rows EXCEPT ![i].Qty = NumCell(0)]

AnyLocationUnset == input_file = "" \/ reference_file = "" \/ output_file = ""

Outcomes ==
    {"showerror:select", "showerror:input", "showerror:reference", "showerror:output",
     "showinfo:saved"}

InLog(e) == \E i \in 1..Len(log) : log[i] = e

OutcomeCount == Cardinality({i \in 1..Len(log) : log[i] \in Outcomes})

(***************************************************************************)
(* C1, as stated: when the loops are over, Inventory Status holds exactly  *)
(* one row for every distinct identifier of the reference table, also for  *)
(* an identifier the reference table lists on several rows.                *)
(***************************************************************************)
C1_OneRowPerDistinctIdentifier ==
    Finished =>
        \A id \in RefOpcs(raw_ref) :
            Cardinality({k \in 1..Len(inventory_rows) :
                            inventory_rows[k].opc = AsTypeStr(id)}) = 1

(***************************************************************************)
(* C1, amended: Inventory Status holds exactly one row per row of the      *)
(* reference table, in its order and with that row's identifier, whether   *)
(* or not the identifier has shipment rows; so one row per distinct        *)
(* identifier when no identifier is listed twice.                          *)
(***************************************************************************)
C1_OneRowPerReferenceRow ==
    /\ pc \in {"item", "day", "item_end", "write"} =>
            /\ Len(inventory_rows) = (IF pc = "write" THEN Len(raw_ref) ELSE row_idx - 1)
            /\ \A k \in 1..Len(inventory_rows) :
                    inventory_rows[k].opc = AsTypeStr(raw_ref[k].OPC)
    /\ (Finished /\ \A j, k \in 1..Len(raw_ref) :
                        j # k => AsTypeStr(raw_ref[j].OPC) # AsTypeStr(raw_ref[k].OPC)) =>
            \A id \in RefOpcs(raw_ref) :
                Cardinality({k \in 1..Len(inventory_rows) :
                                inventory_rows[k].opc = AsTypeStr(id)}) = 1

\* a finished run whose reference table lists twice an identifier without shipment rows
C1_Witness ==
    /\ Finished
    /\ Len(raw_ref) = 2
    /\ raw_ref[1].OPC = raw_ref[2].OPC
    /\ \A i \in 1..Len(raw_input) : raw_input[i].OPC # raw_ref[1].OPC
    /\ Len(inventory_rows) = 2

(***************************************************************************)
(* C2: a shipment row whose OPC is not a reference identifier enters no    *)
(* (OPC, day) total, and the sheets are those of the run without the row.  *)
(***************************************************************************)
C2_UnknownShipmentsDropped ==
    /\ pc \in {"item", "day", "item_end", "write"} =>
            \A e \in df_ship : e.OPC \in ref_opcs
    /\ Finished =>
            \A i \in 1..Len(raw_input) :
                raw_input[i].OPC \notin RefOpcs(raw_ref) =>
                    Sheets = Forecast(raw_ref, WithoutRow(raw_input, i),
                                      file_creation_date, nat_as_text)

\* a finished run with a reference row and a horizon shipment of an unknown OPC
C2_Witness ==
    /\ Finished
    /\ Len(inventory_rows) > 0
    /\ \E i \in 1..Len(raw_input) :
            /\ raw_input[i].OPC \notin RefOpcs(raw_ref)
            /\ \E d \in 1..Len(date_columns) :
                    DueLabel(raw_input[i].Due, nat_as_text) = date_columns[d]

(***************************************************************************)
(* C4: in and after the day loop days_to_negative is the least day whose   *)
(* recorded stock is negative, unset when there is none, and every earlier *)
(* day's stock is a number >= 0; once set the loop never assigns it again. *)
(***************************************************************************)
C4_FirstCrossing ==
    /\ [](pc \in {"day", "item_end"} =>
            /\ days_to_negative = FirstNegative(daily_inv)
            /\ days_to_negative # 0 =>
                    \A j \in 1..(days_to_negative - 1) :
                        ~daily_inv[j].nan /\ daily_inv[j].v >= 0
            /\ pc = "item_end" => Len(daily_inv) = 8)
    /\ [][(pc = "day" /\ days_to_negative # 0) =>
                days_to_negative' = days_to_negative]_vars

\* stock fell below zero, came back to zero or above, and fell again
C4_Witness ==
    /\ pc = "item_end"
    /\ days_to_negative # 0
    /\ \E j, k \in 1..Len(daily_inv) :
            /\ days_to_negative < j /\ j < k
            /\ ~FNeg(daily_inv[j])
            /\ FNeg(daily_inv[k])

RECURSIVE ExpectedWatchlist(_)
\* the rows of inv whose stock first goes negative on day 1..4, in order
ExpectedWatchlist(inv) ==
    IF inv = <<>> THEN <<>>
    ELSE LET r == Head(inv)
             n == FirstNegative(r.daily)
         IN  (IF n # 0 /\ n <= 4
              THEN <<[opc |-> r.opc, oh |-> r.oh, add |-> r.add, days |-> n]>>
              ELSE <<>>) \o ExpectedWatchlist(Tail(inv))

(***************************************************************************)
(* C5: Negative Tracking holds a row for exactly the items whose stock     *)
(* first goes negative on day 1..4, each with that day.                    *)
(***************************************************************************)
C5_WatchlistMembership == negative_rows = ExpectedWatchlist(inventory_rows)

\* one item first negative on day 5..8 and off the list, another on the list
C5_Witness ==
    /\ Finished
    /\ Len(inventory_rows) = 2
    /\ \E k \in 1..2 : FirstNegative(inventory_rows[k].daily) > 4
    /\ Len(negative_rows) = 1
    /\ negative_rows[1].days <= 4

(***************************************************************************)
(* C7: a run started with a file location unset reports the error and      *)
(* ends: no read and no write follows.                                     *)
(***************************************************************************)
C7_MissingSelectionEndsRun ==
    AnyLocationUnset =>
        /\ pc = "idle"
        /\ log \in {<<>>, <<"run", "showerror:select">>}

\* such a run has happened
C7_Witness == AnyLocationUnset /\ log = <<"run", "showerror:select">>

(***************************************************************************)
(* C8: a run reports one outcome, as its last act; a failed read of the    *)
(* input stops before the reference is read, a failed read of either stops *)
(* before the write, success follows both reads and the write.             *)
(***************************************************************************)
C8_OneOutcome ==
    /\ OutcomeCount <= 1
    /\ pc # "idle" => OutcomeCount = 0
    /\ (pc = "idle" /\ log # <<>>) => OutcomeCount = 1 /\ log[Len(log)] \in Outcomes
    /\ InLog("showerror:input") => ~InLog("read:reference") /\ ~InLog("write:output")
    /\ InLog("showerror:reference") => ~InLog("write:output")
    /\ InLog("showinfo:saved") =>
            log = <<"run", "read:input", "read:reference", "write:output", "showinfo:saved">>

\* a run ended by a failed read of the input file
C8_Witness == pc = "idle" /\ log = <<"run", "read:input", "showerror:input">>

(***************************************************************************)
(* C9: a shipment row with an unparsable due date enters no (OPC, day)     *)
(* total; the run goes on to its sheets, which are those of the run with   *)
(* the row's quantity set to zero, one row per reference row.              *)
(***************************************************************************)
C9_UnparsableDateDropped ==
    /\ pc \in {"item", "day", "item_end", "write"} =>
            \A e \in df_ship : e.Due.kind = "label"
    /\ Finished =>
            /\ ~\E i \in 1..Len(log) : log[i] \in Outcomes
            /\ Len(inventory_rows) = Len(raw_ref)
            /\ \A i \in 1..Len(raw_input) :
                    raw_input[i].Due = BadDateCell =>
                        Sheets = Forecast(raw_ref, WithZeroQty(raw_input, i),
                                          file_creation_date, nat_as_text)

\* a finished run with an item all of whose shipment rows have unparsable dates
C9_Witness ==
    /\ Finished
    /\ \E k \in 1..Len(raw_ref) :
            /\ \E i \in 1..Len(raw_input) : raw_input[i].OPC = raw_ref[k].OPC
            /\ \A i \in 1..Len(raw_input) :
                    raw_input[i].OPC = raw_ref[k].OPC => raw_input[i].Due = BadDateCell
            /\ inventory_rows[k].total_ship = F(0)

\* n * a on doubles
FTimes(n, a) == IF a.nan THEN NaN ELSE F(n * a.v)

\* the aggregated quantity of identifier id due on the day labelled day
ItemShipped(id, day) == SumSet({e \in df_ship : e.OPC = id /\ e.Due = day})

RECURSIVE ShippedThrough(_, _)
\* the aggregated quantities of id due on horizon days 1..i
ShippedThrough(id, i) ==
    IF i = 0 THEN F(0)
    ELSE FAdd(ShippedThrough(id, i - 1), ItemShipped(id, date_columns[i]))

\* onHand + shipments due on days 1..i - i * dailyDemand
ClosedForm(id, oh, add, i) == FSub(FAdd(oh, ShippedThrough(id, i)), FTimes(i, add))

(***************************************************************************)
(* C3, as stated: every Inventory Status row has eight stock entries, and  *)
(* entry i is the item's on-hand quantity plus the aggregated shipments of *)
(* the item's identifier due on horizon days 1..i minus i times its ADD.   *)
(***************************************************************************)
C3_ClosedForm ==
    \A k \in 1..Len(inventory_rows) :
        /\ Len(inventory_rows[k].daily) = 8
        /\ \A i \in 1..8 :
                inventory_rows[k].daily[i] =
                    ClosedForm(raw_ref[k].OPC, inventory_rows[k].oh,
                               inventory_rows[k].add, i)

(***************************************************************************)
(* C3 on the rows whose identifier was loaded as text: there the closed    *)
(* form holds (the numeric identifiers are the subject of C10).            *)
(***************************************************************************)
C3_ClosedFormOfTextIdentifiers ==
    \A k \in 1..Len(inventory_rows) :
        raw_ref[k].OPC.kind = "text" =>
            /\ Len(inventory_rows[k].daily) = 8
            /\ \A i \in 1..8 :
                    inventory_rows[k].daily[i] =
                        ClosedForm(raw_ref[k].OPC, inventory_rows[k].oh,
                                   inventory_rows[k].add, i)

\* an optional sign and decimal digits, commas and outer blanks aside
IsNumberText(s) ==
    LET t == Strip(RemoveCommas(s))
    IN  /\ t # <<>>
        /\ LET u == IF Head(t) \in {"-", "+"} THEN Tail(t) ELSE t
           IN  u # <<>> /\ \A i \in 1..Len(u) : IsDigit(u[i])

(***************************************************************************)
(* C6, as stated: each of the three normalisers returns a number for every *)
(* cell: 0.0 for a blank cell, for text that is empty without its commas   *)
(* and outer blanks and for text that is no number, the value otherwise.   *)
(* The text "nan", which float() accepts, is left to either reading.       *)
(***************************************************************************)
C6_NormalizerDefaultsToZero ==
    fn # "none" =>
        /\ value.kind = "blank" => normalized = F(0)
        /\ (value.kind = "text" /\ ~IsNumberText(value.chars)
                /\ value # TextCell(<<"n", "a", "n">>)) => normalized = F(0)
        /\ value.kind = "number" => normalized = F(value.num)
        /\ value = TextCell(<<"N", "/", "A">>) => normalized = F(0)
        /\ value = TextCell(<<>>) => normalized = F(0)
        /\ value = TextCell(<<"1", ",", "2", "3", "4">>) => normalized = F(1234)

(***************************************************************************)
(* C6 on the cells that are neither blank nor the word nan: there the      *)
(* three normalisers follow the stated rule.                               *)
(***************************************************************************)
C6_NormalizerOnOtherCells ==
    (fn # "none" /\ value.kind # "blank" /\ value # TextCell(<<"n", "a", "n">>)) =>
        /\ ~normalized.nan
        /\ (value.kind = "text" /\ ~IsNumberText(value.chars)) => normalized = F(0)
        /\ value.kind = "number" => normalized = F(value.num)
        /\ value = TextCell(<<"N", "/", "A">>) => normalized = F(0)
        /\ value = TextCell(<<>>) => normalized = F(0)
        /\ value = TextCell(<<"1", ",", "2", "3", "4">>) => normalized = F(1234)

(***************************************************************************)
(* C10, as stated: a shipment row that passed the isin filter is selected  *)
(* by the lookup of the reference row with its identifier, text or number. *)
(***************************************************************************)
C10_SurvivorsAreAttributed ==
    pc = "aggregate" =>
        \A i \in 1..Len(df_input) :
            \A k \in 1..Len(raw_ref) :
                (df_input[i].Due.kind = "label" /\ raw_ref[k].OPC = df_input[i].OPC) =>
                    df_input[i].OPC = df_ref[k].OPC

(***************************************************************************)
(* C10 on the identifiers loaded as text: there the lookup selects every   *)
(* surviving row.                                                          *)
(***************************************************************************)
C10_TextSurvivorsAreAttributed ==
    pc = "aggregate" =>
        \A i \in 1..Len(df_input) :
            \A k \in 1..Len(raw_ref) :
                (df_input[i].OPC.kind = "text" /\ raw_ref[k].OPC = df_input[i].OPC) =>
                    df_input[i].OPC = df_ref[k].OPC

====
